---- MODULE Spec2Model ----
(***************************************************************************)
(* Routh-Hurwitz stability-table engine of auto_control_tools              *)
(* (analysis/stability.py): RouthHurwitz.__init__, compute,                *)
(* _build_routh_table and its helpers, as a state machine over engine      *)
(* invocations and the list objects they create.                           *)
(*                                                                         *)
(* Numbers.  The code computes in Python floats (IEEE 754 binary64).  The  *)
(* model computes in the same floats: every product, difference and        *)
(* quotient is the exact result rounded to nearest, ties to even, so that   *)
(* a rounding residue that decides a branch of the code (abs(x) < 1e-12)    *)
(* decides it here as well, with inf on overflow, the subnormal floats on   *)
(* underflow, and nan.  zero_row_epsilon and the other tolerances are       *)
(* powers of ten 10^(-k), carried as the exponent k and compared as the     *)
(* float literal 1e-k.                                                      *)
(***************************************************************************)
EXTENDS Integers, Sequences, FiniteSets, TLC

\* ---------------------------------------------------------------- bounds
MaxLen == 4      \* longest enumerated coefficient sequence (degree MaxLen-1)
MaxCoef == 2     \* enumerated coefficients range over -MaxCoef..MaxCoef

\* ------------------------------------------- binary64 (Python float)
\* A float is 0 or sign * mant * 2^exp, where mant is the 53-bit significand
\* followed by three 0 bits (2^55 <= mant < 2^56), held as four limbs of 14
\* bits, least significant first.  Every operation computes the exact
\* result as an integer of limbs times a power of two and rounds it to
\* nearest, ties to even, as the hardware does.  A result beyond the
\* largest finite float is inf; below 2^-1022 the floats are the multiples
\* of 2^-1074 (subnormal: the significand is kept normalised, its low bits
\* are 0) and a result is rounded to them, to 0 when it is too small; nan
\* comes from inf - inf, inf * 0 and inf / inf and spreads.  -0.0 is 0.0
\* (the two compare equal in Python, and only a division by zero, which
\* raises, tells them apart).
Abs(x) == IF x < 0 THEN -x ELSE x

Base == 16384
Pow2 == <<1, 2, 4, 8, 16, 32, 64, 128, 256, 512, 1024, 2048, 4096, 8192, 16384>>

\* exponents of the smallest normal float, 2^55 * 2^MinExp = 2^-1022, and of
\* the largest finite one, (2^56 - 8) * 2^MaxExp
MinExp == -1077
MaxExp == 968

NoBits == <<0, 0, 0, 0>>

Zero == [sign |-> 0, exp |-> 0, mant |-> NoBits]

\* float("inf") with a sign, and float("nan")
Inf(s) == [sign |-> s, exp |-> MaxExp + 1, mant |-> NoBits]
NaN == [sign |-> 0, exp |-> MaxExp + 1, mant |-> NoBits]

IsInf(x) == x.exp = MaxExp + 1 /\ x.sign # 0
IsNaN(x) == x.exp = MaxExp + 1 /\ x.sign = 0

\* limb j (0-based) of the natural N, 0 outside it
Limb(N, j) == IF j >= 0 /\ j < Len(N) THEN N[j + 1] ELSE 0

\* the 14 bits of N from bit lo upwards (lo >= -224; bits outside N are 0)
Window(N, lo) ==
    LET q == ((lo + 224) \div 14) - 16
        r == lo - 14 * q
    IN  (Limb(N, q) \div Pow2[r + 1]) + (Limb(N, q + 1) % Pow2[r + 1]) * Pow2[15 - r]

\* some bit of N below bit lo is 1
Sticky(N, lo) ==
    LET q == lo \div 14
        r == lo % 14
    IN  lo > 0 /\ (\/ \E j \in 0..(q - 1) : Limb(N, j) # 0
                   \/ Limb(N, q) % Pow2[r + 1] # 0)

\* the number of bits of a limb
LimbBits(v) ==
    IF v >= 128
    THEN IF v >= 2048
         THEN IF v >= 8192 THEN 14 ELSE IF v >= 4096 THEN 13 ELSE 12
         ELSE IF v >= 512 THEN (IF v >= 1024 THEN 11 ELSE 10)
         ELSE IF v >= 256 THEN 9 ELSE 8
    ELSE IF v >= 8
         THEN IF v >= 32 THEN (IF v >= 64 THEN 7 ELSE 6)
              ELSE IF v >= 16 THEN 5 ELSE 4
         ELSE IF v >= 2 THEN (IF v >= 4 THEN 3 ELSE 2)
         ELSE v

\* the highest limb of N that is not 0, from limb j downwards (0: none)
RECURSIVE TopLimb(_, _)
TopLimb(N, j) == IF j = 0 \/ N[j] # 0 THEN j ELSE TopLimb(N, j - 1)

\* the number of bits of N
BitLen(N) ==
    LET top == TopLimb(N, Len(N))
    IN  IF top = 0 THEN 0 ELSE 14 * (top - 1) + LimbBits(N[top])

\* X + Y and X - Y (X >= Y) for naturals of the same number of limbs
RECURSIVE AddLimbs(_, _, _, _)
AddLimbs(X, Y, j, carry) ==
    IF j > Len(X) THEN <<>>
    ELSE LET t == X[j] + Y[j] + carry
         IN  <<t % Base>> \o AddLimbs(X, Y, j + 1, t \div Base)

RECURSIVE SubLimbs(_, _, _, _)
SubLimbs(X, Y, j, borrow) ==
    IF j > Len(X) THEN <<>>
    ELSE LET t == X[j] - Y[j] - borrow
         IN  <<IF t < 0 THEN t + Base ELSE t>>
                 \o SubLimbs(X, Y, j + 1, IF t < 0 THEN 1 ELSE 0)

\* X < Y for naturals of the same number of limbs: decided by the highest
\* limb in which they differ, looked for from limb j downwards
RECURSIVE LtFrom(_, _, _)
LtFrom(X, Y, j) ==
    IF j = 0 THEN FALSE
    ELSE IF X[j] # Y[j] THEN X[j] < Y[j]
    ELSE LtFrom(X, Y, j - 1)

LimbsLt(X, Y) == LtFrom(X, Y, Len(X))

\* sign * K * 2^e for K < 2^56 with the low three bits 0, which needs no
\* rounding: 0, the normalised float, or inf beyond the largest finite float
Fit(sign, K, e) ==
    LET l == BitLen(K)
    IN  IF l = 0 THEN Zero
        ELSE IF e + l - 56 > MaxExp THEN Inf(sign)
        ELSE IF l = 56 THEN [sign |-> sign, exp |-> e, mant |-> K]
        ELSE [sign |-> sign, exp |-> e + l - 56,
              mant |-> <<Window(K, l - 56), Window(K, l - 42),
                         Window(K, l - 28), Window(K, l - 14)>>]

\* sign * N * 2^exp rounded at bit sh + 3 of N, ties to even, where T is
\* the 56 bits of N from bit sh upwards
RoundWindow(sign, N, exp, sh, T) ==
    LET low3 == T[1] % 8
        up == \/ low3 > 4
              \/ low3 = 4 /\ (Sticky(N, sh) \/ (T[1] \div 8) % 2 = 1)
        kept == <<T[1] - low3, T[2], T[3], T[4]>>
    IN  IF ~up THEN Fit(sign, kept, exp + sh)
        ELSE CHOOSE r \in
               {IF next = NoBits
                THEN Fit(sign, <<0, 0, 0, 8192>>, exp + sh + 1)
                ELSE Fit(sign, next, exp + sh) :
                  next \in {AddLimbs(kept, <<8, 0, 0, 0>>, 1, 0)}} : TRUE

\* sign * N * 2^exp rounded to the nearest float for N # 0 of len bits: to
\* 53 bits, or to the multiples of 2^-1074 = 2^(MinExp + 3) when the
\* result lies below the smallest normal float
RoundFrom(sign, N, exp, len) ==
    CHOOSE r \in
      {RoundWindow(sign, N, exp, sh,
                   <<Window(N, sh), Window(N, sh + 14), Window(N, sh + 28),
                     Window(N, sh + 42)>>) :
         sh \in {IF exp + len - 56 < MinExp THEN MinExp - exp ELSE len - 56}} :
      TRUE

\* sign * N * 2^exp rounded to the nearest float, ties to even
Round(sign, N, exp) ==
    IF sign = 0 THEN Zero
    ELSE CHOOSE r \in
           {IF BitLen(M) = 0 THEN Zero ELSE RoundFrom(sign, M, exp, BitLen(M)) :
              M \in {N}} : TRUE

\* float(c) of an integer c
Float(c) ==
    LET a == Abs(c)
    IN  Round(IF c > 0 THEN 1 ELSE IF c < 0 THEN -1 ELSE 0,
              <<a % Base, (a \div Base) % Base, a \div (Base * Base)>>, 0)

\* -x
Neg(x) == [x EXCEPT !.sign = -x.sign]

\* the sign of x: -1, 0 or 1
Sign(x) == x.sign

\* abs(x) < abs(y)
MagLt(x, y) ==
    IF IsNaN(x) \/ IsNaN(y) THEN FALSE
    ELSE IF x.sign = 0 \/ y.sign = 0 THEN x.sign = 0 /\ y.sign # 0
    ELSE x.exp < y.exp \/ (x.exp = y.exp /\ LimbsLt(x.mant, y.mant))

\* the exact product of two significands, as eight limbs
MulLimbs(X, Y) ==
    LET col(k) == LET lo == IF k > 3 THEN k - 3 ELSE 0
                      hi == IF k < 3 THEN k ELSE 3
                  IN  IF hi - lo = 0 THEN X[lo + 1] * Y[k - lo + 1]
                      ELSE IF hi - lo = 1
                      THEN X[lo + 1] * Y[k - lo + 1] + X[lo + 2] * Y[k - lo]
                      ELSE IF hi - lo = 2
                      THEN X[lo + 1] * Y[k - lo + 1] + X[lo + 2] * Y[k - lo]
                           + X[lo + 3] * Y[k - lo - 1]
                      ELSE X[1] * Y[4] + X[2] * Y[3] + X[3] * Y[2] + X[4] * Y[1]
        t0 == col(0)
        t1 == col(1) + t0 \div Base
        t2 == col(2) + t1 \div Base
        t3 == col(3) + t2 \div Base
        t4 == col(4) + t3 \div Base
        t5 == col(5) + t4 \div Base
        t6 == col(6) + t5 \div Base
    IN  <<t0 % Base, t1 % Base, t2 % Base, t3 % Base, t4 % Base, t5 % Base,
          t6 % Base, t6 \div Base>>

\* the significand of a power of two
PowerOfTwo == <<0, 0, 0, 8192>>

\* the exponent e is that of a normal float
NormalExp(e) == MinExp <= e /\ e <= MaxExp

\* x * y; a factor that is a power of two only moves the exponent, as long
\* as the product is a normal float
Product(x, y) ==
    IF IsNaN(x) \/ IsNaN(y) THEN NaN
    ELSE IF IsInf(x) \/ IsInf(y)
    THEN IF x.sign = 0 \/ y.sign = 0 THEN NaN ELSE Inf(x.sign * y.sign)
    ELSE IF x.sign = 0 \/ y.sign = 0 THEN Zero
    ELSE IF y.mant = PowerOfTwo /\ NormalExp(x.exp + y.exp + 55)
    THEN [sign |-> x.sign * y.sign, exp |-> x.exp + y.exp + 55, mant |-> x.mant]
    ELSE IF x.mant = PowerOfTwo /\ NormalExp(x.exp + y.exp + 55)
    THEN [sign |-> x.sign * y.sign, exp |-> x.exp + y.exp + 55, mant |-> y.mant]
    ELSE Round(x.sign * y.sign, MulLimbs(x.mant, y.mant), x.exp + y.exp)

RMul(x, y) == CHOOSE r \in {Product(a, b) : a \in {x}, b \in {y}} : TRUE

\* big + small for finite abs(big) >= abs(small), neither 0
AddOrdered(big, small) ==
    LET d == big.exp - small.exp
        Y == small.mant \o <<0, 0, 0, 0>>
    IN  IF d >= 56 THEN big
        ELSE CHOOSE r \in
               {Round(big.sign,
                      IF big.sign = small.sign THEN AddLimbs(X, Y, 1, 0)
                      ELSE SubLimbs(X, Y, 1, 0),
                      small.exp) :
                  X \in {<<Window(big.mant, -d), Window(big.mant, 14 - d),
                           Window(big.mant, 28 - d), Window(big.mant, 42 - d),
                           Window(big.mant, 56 - d), Window(big.mant, 70 - d),
                           Window(big.mant, 84 - d), Window(big.mant, 98 - d)>>}} :
               TRUE

Sum(x, y) ==
    IF IsNaN(x) \/ IsNaN(y) THEN NaN
    ELSE IF IsInf(x) THEN (IF IsInf(y) /\ y.sign # x.sign THEN NaN ELSE x)
    ELSE IF IsInf(y) THEN y
    ELSE IF x.sign = 0 THEN y
    ELSE IF y.sign = 0 THEN x
    ELSE IF MagLt(x, y) THEN AddOrdered(y, x)
    ELSE AddOrdered(x, y)

\* x + y
RAdd(x, y) == CHOOSE r \in {Sum(a, b) : a \in {x}, b \in {y}} : TRUE

\* x - y
RSub(x, y) == RAdd(x, Neg(y))

\* The quotient digit of (R * Base) / V for a remainder R < V, estimated
\* from the two leading limbs and corrected with the third: the digit or
\* one more than it.
DigitEstimate(R, V) ==
    LET num == R[4] * Base + R[3]
        q0 == IF num \div V[4] >= Base THEN Base - 1 ELSE num \div V[4]
        r0 == num - q0 * V[4]
        q1 == IF r0 < Base /\ q0 * V[3] > r0 * Base + R[2] THEN q0 - 1 ELSE q0
        r1 == num - q1 * V[4]
    IN  IF q1 # q0 /\ r1 < Base /\ q1 * V[3] > r1 * Base + R[2]
        THEN q1 - 1 ELSE q1

\* the digit and the remainder of (R * Base) / V from the estimate q: the
\* estimate is lowered by one if q * V exceeds R * Base
DigitFrom(R, V, q) ==
    LET \* the product q * V, limb by limb
        p0 == q * V[1]
        p1 == q * V[2] + p0 \div Base
        p2 == q * V[3] + p1 \div Base
        p3 == q * V[4] + p2 \div Base
        \* R * Base - q * V, limb by limb; t4 < 0 when it is negative
        t0 == 0 - (p0 % Base)
        t1 == R[1] - (p1 % Base) - (IF t0 < 0 THEN 1 ELSE 0)
        t2 == R[2] - (p2 % Base) - (IF t1 < 0 THEN 1 ELSE 0)
        t3 == R[3] - (p3 % Base) - (IF t2 < 0 THEN 1 ELSE 0)
        t4 == R[4] - (p3 \div Base) - (IF t3 < 0 THEN 1 ELSE 0)
    IN  CHOOSE r \in
          {IF t[5] < 0
           THEN [digit |-> q - 1,
                 rem |-> AddLimbs(<<t[1] % Base, t[2] % Base, t[3] % Base,
                                    t[4] % Base>>, V, 1, 0)]
           ELSE [digit |-> q,
                 rem |-> <<t[1] % Base, t[2] % Base, t[3] % Base, t[4] % Base>>] :
             t \in {<<t0, t1, t2, t3, t4>>}} : TRUE

\* one digit of the long division by the significand V
DivDigit(R, V) ==
    CHOOSE r \in {DigitFrom(S, V, q) : S \in {R}, q \in {DigitEstimate(R, V)}} :
      TRUE

\* k more digits of the long division of the remainder R by V, the digits
\* found so far in acc, least significant first
RECURSIVE DivDigits(_, _, _, _)
DivDigits(R, V, k, acc) ==
    IF k = 0 THEN [digits |-> acc, rem |-> R]
    ELSE CHOOSE r \in
           {DivDigits(d.rem, V, k - 1, <<d.digit>> \o acc) :
              d \in {DivDigit(R, V)}} : TRUE

\* x / y for y # 0; a divisor that is a power of two only moves the
\* exponent, as long as the quotient is a normal float
Quotient(x, y) ==
    LET lead == IF LimbsLt(x.mant, y.mant) THEN 0 ELSE 1
        R4 == IF lead = 1 THEN SubLimbs(x.mant, y.mant, 1, 0) ELSE x.mant
    IN  IF IsNaN(x) \/ IsNaN(y) THEN NaN
        ELSE IF IsInf(x)
        THEN IF IsInf(y) THEN NaN ELSE Inf(x.sign * y.sign)
        ELSE IF IsInf(y) \/ x.sign = 0 THEN Zero
        ELSE IF y.mant = PowerOfTwo /\ NormalExp(x.exp - y.exp - 55)
        THEN [sign |-> x.sign * y.sign, exp |-> x.exp - y.exp - 55,
              mant |-> x.mant]
        ELSE CHOOSE r \in
               {Round(x.sign * y.sign,
                      <<IF q.digits[1] % 2 = 0 /\ q.rem # <<0, 0, 0, 0>>
                        THEN q.digits[1] + 1 ELSE q.digits[1],
                        q.digits[2], q.digits[3], q.digits[4], lead>>,
                      x.exp - y.exp - 56) :
                  q \in {DivDigits(R4, y.mant, 4, <<>>)}} : TRUE

RDiv(x, y) == CHOOSE r \in {Quotient(a, b) : a \in {x}, b \in {y}} : TRUE

\* The decimal literals 1e-0 .. 1e-15 as the interpreter reads them: the
\* float nearest to 10^(-k). Literal 1e-k is TenToMinus[k + 1].
TenToMinus ==
    <<[sign |-> 1, exp |-> -55, mant |-> <<0, 0, 0, 8192>>],
      [sign |-> 1, exp |-> -59, mant |-> <<3280, 13107, 3276, 13107>>],
      [sign |-> 1, exp |-> -62, mant |-> <<9176, 13762, 12451, 10485>>],
      [sign |-> 1, exp |-> -65, mant |-> <<4064, 7733, 9961, 8388>>],
      [sign |-> 1, exp |-> -69, mant |-> <<6504, 9096, 12661, 13421>>],
      [sign |-> 1, exp |-> -72, mant |-> <<1928, 7277, 6852, 10737>>],
      [sign |-> 1, exp |-> -75, mant |-> <<11368, 5821, 15312, 8589>>],
      [sign |-> 1, exp |-> -79, mant |-> <<14912, 6037, 14669, 13743>>],
      [sign |-> 1, exp |-> -82, mant |-> <<8656, 1553, 1905, 10995>>],
      [sign |-> 1, exp |-> -85, mant |-> <<13480, 1242, 1524, 8796>>],
      [sign |-> 1, exp |-> -89, mant |-> <<11736, 15095, 12268, 14073>>],
      [sign |-> 1, exp |-> -92, mant |-> <<9384, 12076, 16368, 11258>>],
      [sign |-> 1, exp |-> -95, mant |-> <<4232, 9661, 3264, 9007>>],
      [sign |-> 1, exp |-> -99, mant |-> <<13328, 2350, 8500, 14411>>],
      [sign |-> 1, exp |-> -102, mant |-> <<7384, 5157, 3523, 11529>>],
      [sign |-> 1, exp |-> -105, mant |-> <<12464, 7402, 6095, 9223>>]>>

\* n / d for integers n, d # 0
Rat(n, d) == RDiv(Float(n), Float(d))

\* abs(x) < 10^(-k)
AbsLt(x, k) == MagLt(x, TenToMinus[k + 1])

\* abs(x) <= 10^(-k): np.isclose(x, 0, atol=10^(-k)) and np.allclose
AbsLe(x, k) == ~IsNaN(x) /\ ~MagLt(TenToMinus[k + 1], x)

\* x is neither inf nor nan
Finite(x) == x.exp <= MaxExp

\* --------------------------------------------------------- configuration
\* epsilon: float = 1e-6
DefaultEpsilon == TenToMinus[7]
\* zero_row_epsilon: float = 1e-12, as the exponent k of 10^(-k)
DefaultZeroRowExp == 12
\* tol: float = 1e-12 of _count_sign_changes, as the exponent k of 10^(-k)
SignTolExp == 12

DefaultConfig ==
    [epsilon |-> DefaultEpsilon, zero_row_exp |-> DefaultZeroRowExp,
     normalize_leading |-> TRUE]

\* The keyword arguments enumerated: every one is accepted by __init__,
\* which validates none of them.
Epsilons == {DefaultEpsilon, Zero, Float(1)}

Configs ==
    [epsilon : Epsilons, zero_row_exp : {DefaultZeroRowExp},
     normalize_leading : BOOLEAN]

\* ---------------------------------------------------------------- inputs
Coefs == (-MaxCoef)..MaxCoef

SeqsUpTo(S, k) == UNION {[1..l -> S] : l \in 0..k}

\* the scenarios of the test-suite and of the specification that lie outside
\* the enumerated sequences: s^4 + 2 s^2 + 1 and s^3 + 2 s^2 + 3 s + 4; and
\* two polynomials with a pair of roots on the imaginary axis whose row s^1
\* is 0 in exact arithmetic and a rounding residue above 1e-12 in floats:
\* (3 s + 1)(s^2 + 100000) and (s^2 + 4)(s^5 + 6 s^4 + 11 s^3 + 11 s^2 + 6 s + 1);
\* and s^2 + 31, where (1e-6 * 31) / 1e-6 rounds to 31.000000000000004
Scenarios ==
    {<<1, 0, 2, 0, 1>>, <<1, 2, 3, 4>>,
     <<3, 1, 300000, 100000>>, <<1, 6, 15, 35, 50, 45, 24, 4>>,
     <<1, 0, 31>>}

Inputs == SeqsUpTo(Coefs, MaxLen) \cup Scenarios

\* ------------------------------------------ RouthHurwitz.__init__ (198-228)
\* the comparison of NearZero turned round (abs(c) > zero_row_epsilon)
NearZeroInverted(x, cfg) == ~AbsLt(x, cfg.zero_row_exp)

\* abs(c) < zero_row_epsilon
NearZero(x, cfg) == AbsLt(x, cfg.zero_row_exp)

\* the while loop of lines 211-213: the number of leading near-zero entries
RECURSIVE SkipLeading(_, _, _)
SkipLeading(cs, i, cfg) ==
    IF i < Len(cs) /\ NearZero(Float(cs[i + 1]), cfg)
    THEN SkipLeading(cs, i + 1, cfg)
    ELSE i

\* the three raise statements of lines 206-215
Rejected(cs, cfg) ==
    \/ cs = <<>>
    \/ \A k \in 1..Len(cs) : NearZero(Float(cs[k]), cfg)
    \/ SkipLeading(cs, 0, cfg) = Len(cs)

\* Canonical without the slice coeffs[i:] of line 217
CanonicalUnstripped(cs, cfg) ==
    LET stripped == cs
    IN  IF cfg.normalize_leading /\ Abs(stripped[1]) > 0
        THEN [k \in 1..Len(stripped) |->
                 RDiv(Float(stripped[k]), Float(stripped[1]))]
        ELSE [k \in 1..Len(stripped) |-> Float(stripped[k])]

\* lines 216-223: strip the leading near-zero entries, then divide by the
\* leading coefficient (normalize_leading) or convert to float
Canonical(cs, cfg) ==
    LET i == SkipLeading(cs, 0, cfg)
        stripped == SubSeq(cs, i + 1, Len(cs))
    IN  IF cfg.normalize_leading /\ Abs(stripped[1]) > 0
        THEN [k \in 1..Len(stripped) |->
                 RDiv(Float(stripped[k]), Float(stripped[1]))]
        ELSE [k \in 1..Len(stripped) |-> Float(stripped[k])]

\* ------------------------------------------------ helpers (307-352)
\* _coeff_at reading coeffs from the bottom (index power instead of n - power)
CoeffAtFromBottom(coeffs, n, power) ==
    LET idx_from_top == power
    IN  IF idx_from_top < 0 \/ idx_from_top >= Len(coeffs)
        THEN Zero
        ELSE coeffs[idx_from_top + 1]

\* _coeff_at: the coefficient of s^power in coeffs = [a_n, ..., a_0]
CoeffAt(coeffs, n, power) ==
    LET idx_from_top == n - power
    IN  IF idx_from_top < 0 \/ idx_from_top >= Len(coeffs)
        THEN Zero
        ELSE coeffs[idx_from_top + 1]

ZeroRow(len) == [k \in 1..len |-> Zero]

\* _row_to_poly: the loop "for x in row" with k counting down by 2
RECURSIVE RowToPolyLoop(_, _, _, _, _)
RowToPolyLoop(row, idx, k, poly, degree) ==
    IF idx > Len(row) \/ k < 0
    THEN poly
    ELSE RowToPolyLoop(row, idx + 1, k - 2,
                       [poly EXCEPT ![degree - k + 1] = row[idx]], degree)

RowToPoly(row, degree) == RowToPolyLoop(row, 1, degree, ZeroRow(degree + 1), degree)

\* _poly_to_row: the loop "for p in range(n, -1, -2)" with j counting up
RECURSIVE PolyToRowLoop(_, _, _, _, _)
PolyToRowLoop(poly, p, j, row, m_cols) ==
    IF p < 0 \/ j >= m_cols
    THEN row
    ELSE PolyToRowLoop(poly, p - 2, j + 1,
                       [row EXCEPT ![j + 1] = poly[(Len(poly) - 1) - p + 1]],
                       m_cols)

\* _poly_to_row that starts one power lower: range(n - 1, -1, -2)
PolyToRowFromSecond(poly, m_cols) ==
    PolyToRowLoop(poly, Len(poly) - 2, 0, ZeroRow(m_cols), m_cols)

PolyToRow(poly, m_cols) ==
    PolyToRowLoop(poly, Len(poly) - 1, 0, ZeroRow(m_cols), m_cols)

\* _poly_derivative without the factor (n - i)
PolyDerivativeUnscaled(poly) ==
    LET n == Len(poly) - 1
    IN  IF n <= 0 THEN <<Zero>>
        ELSE [i \in 1..(Len(poly) - 1) |-> poly[i]]

\* _poly_derivative
PolyDerivative(poly) ==
    LET n == Len(poly) - 1
    IN  IF n <= 0 THEN <<Zero>>
        ELSE [i \in 1..(Len(poly) - 1) |-> RMul(poly[i], Float(n - (i - 1)))]

\* ------------------------------------- _build_routh_table (247-305)
\* m_cols = (n + 2) // 2
MCols(n) == (n + 2) \div 2

\* row_labels = [s^n, ..., s^0], each label carried as its power
RowLabels(n) == [k \in 1..(n + 1) |-> n - (k - 1)]

\* lines 253-266: row0 and row1 from the coefficients
FirstRows(coeffs, n) ==
    LET m_cols == MCols(n)
    IN  << [j \in 1..m_cols |-> CoeffAt(coeffs, n, n - 2 * (j - 1))],
           [j \in 1..m_cols |-> CoeffAt(coeffs, n, n - (2 * (j - 1) + 1))] >>

\* the two kinds of note (lines 278-280 and 290-292)
PivotNote(label, eps) == [kind |-> "pivot", label |-> label, epsilon |-> eps]
ZeroRowNote(label) == [kind |-> "zero_row", label |-> label, epsilon |-> Zero]

\* StabilizePivot that notes the substitution without making it
StabilizePivotNoSubstitution(row, label, notes, cfg) ==
    IF AbsLt(row[1], cfg.zero_row_exp)
    THEN [prev |-> row,
          notes |-> Append(notes, PivotNote(label, cfg.epsilon))]
    ELSE [prev |-> row, notes |-> notes]

\* StabilizePivot that makes the substitution without noting it
StabilizePivotNoNote(row, label, notes, cfg) ==
    IF AbsLt(row[1], cfg.zero_row_exp)
    THEN [prev |-> [row EXCEPT ![1] = cfg.epsilon], notes |-> notes]
    ELSE [prev |-> row, notes |-> notes]

\* lines 274-280: the pivot substitution on a copy of prev
StabilizePivot(row, label, notes, cfg) ==
    IF NearZero(row[1], cfg)
    THEN [prev |-> [row EXCEPT ![1] = cfg.epsilon],
          notes |-> Append(notes, PivotNote(label, cfg.epsilon))]
    ELSE [prev |-> row, notes |-> notes]

\* line 283: all(abs(x) < zero_row_eps for x in prev)
AllNearZero(row, cfg) == \A k \in 1..Len(row) : NearZero(row[k], cfg)

\* lines 285-289: the derivative of the auxiliary polynomial of prev2
AuxiliaryRow(prev2, n, i, m_cols) ==
    LET aux_poly_deg == n - (i - 2)
        aux_coeffs == RowToPoly(prev2, aux_poly_deg)
        d_aux == PolyDerivative(aux_coeffs)
    IN  PolyToRow(d_aux, m_cols)

\* line 300 with the cross product the other way round: ((c * b) - (a * d)) / a
RouthEntryCrossed(prev, prev2, j) ==
    LET a == prev[1]
        b == prev[j + 2]
        c == prev2[1]
        d == prev2[j + 2]
    IN  RDiv(RSub(RMul(c, b), RMul(a, d)), a)

\* line 300: ((a * d) - (c * b)) / a, with a # 0
RouthEntry(prev, prev2, j) ==
    LET a == prev[1]
        b == prev[j + 2]
        c == prev2[1]
        d == prev2[j + 2]
    IN  RDiv(RSub(RMul(a, d), RMul(c, b)), a)

\* lines 293-301: the standard row; the last column stays 0.0
StandardRow(prev, prev2, m_cols) ==
    [k \in 1..m_cols |->
        IF k <= m_cols - 1 THEN RouthEntry(prev, prev2, k - 1) ELSE Zero]

\* One iteration of the loop of line 269 for row index i (0-based), on the
\* table built so far.  raised: the division of line 300 divides by zero.
BuildRow(tbl, notes, i, n, cfg) ==
    LET m_cols == MCols(n)
        label == RowLabels(n)[i]           \* row_labels[i-1]
        prev2 == tbl[i - 1]                \* table[i-2]
        st == StabilizePivot(tbl[i], label, notes, cfg)
    IN  IF AllNearZero(st.prev, cfg)
        THEN [raised |-> FALSE, prev |-> st.prev,
              row |-> AuxiliaryRow(prev2, n, i, m_cols),
              notes |-> Append(st.notes, ZeroRowNote(label))]
        ELSE IF m_cols - 1 >= 1 /\ st.prev[1] = Zero
        THEN [raised |-> TRUE, prev |-> st.prev, row |-> <<>>,
              notes |-> st.notes]
        ELSE [raised |-> FALSE, prev |-> st.prev,
              row |-> StandardRow(st.prev, prev2, m_cols),
              notes |-> st.notes]

\* ------------------------------------- _count_sign_changes (354-370)
\* the sign of the substituted 1e-15
TinySign == 1

\* cleaned, entry by entry, as signs: the function only compares the
\* entries of cleaned with 0
Cleaned(values) ==
    [k \in 1..Len(values) |->
        IF AbsLt(values[k], SignTolExp) THEN TinySign ELSE Sign(values[k])]

CountSignChanges(values) ==
    LET cleaned == Cleaned(values)
    IN  Cardinality({k \in 1..(Len(values) - 1) :
            /\ ~(cleaned[k] = 0 \/ cleaned[k + 1] = 0)
            /\ \/ cleaned[k] > 0 /\ cleaned[k + 1] < 0
               \/ cleaned[k] < 0 /\ cleaned[k + 1] > 0})

\* ------------------------------------------------- compute (231-244)
FirstColumn(tbl) ==
    [k \in 1..Len(tbl) |-> IF tbl[k] # <<>> THEN tbl[k][1] ELSE Zero]

\* Assemble with is_stable taken from the wrong comparison (rhp <= 1)
AssembleStableUpToOne(coeffs, n, tbl, notes) ==
    LET first_col == FirstColumn(tbl)
        rhp == CountSignChanges(first_col)
    IN  [order |-> n, coefficients |-> coeffs, table |-> tbl,
         row_labels |-> RowLabels(n), first_column |-> first_col,
         rhp_poles |-> rhp, is_stable |-> (rhp <= 1), notes |-> notes]

Assemble(coeffs, n, tbl, notes) ==
    LET first_col == FirstColumn(tbl)
        rhp == CountSignChanges(first_col)
    IN  [order |-> n, coefficients |-> coeffs, table |-> tbl,
         row_labels |-> RowLabels(n), first_column |-> first_col,
         rhp_poles |-> rhp, is_stable |-> (rhp = 0), notes |-> notes]

\* ------------------------------------- routh_hurwitz (373-382)
\* the loop of line 269 run to its end from row index i
RECURSIVE BuildFrom(_, _, _, _, _)
BuildFrom(tbl, notes, i, n, cfg) ==
    IF i > n
    THEN [raised |-> FALSE, table |-> tbl, notes |-> notes]
    ELSE LET r == BuildRow(tbl, notes, i, n, cfg)
         IN  IF r.raised
             THEN [raised |-> TRUE, table |-> tbl, notes |-> r.notes]
             ELSE BuildFrom(Append(tbl, r.row), r.notes, i + 1, n, cfg)

\* RouthHurwitz(coeffs, **kwargs).compute() as one function of its
\* arguments: how the call ends, and the RouthResult when it returns one
Run(cs, cfg) ==
    IF Rejected(cs, cfg)
    THEN [status |-> "invalid", result |-> <<>>]
    ELSE LET c == Canonical(cs, cfg)
             nn == Len(c) - 1
             b == BuildFrom(FirstRows(c, nn), <<>>, 2, nn, cfg)
         IN  IF b.raised
             THEN [status |-> "zero_division", result |-> <<>>]
             ELSE [status |-> "done",
                   result |-> <<Assemble(c, nn, b.table, b.notes)>>]

\* --------------------------- utils/plot.py: routh_table, routh_stability
\* eps: float = 1e-9 of routh_table
PlotEps == TenToMinus[10]
\* atol=1e-12 of routh_table and atol=1e-8 of routh_stability, as exponents
PlotZeroExp == 12
PlotSignExp == 8

\* lines 539-541: np.nonzero(np.abs(c) > 0)[0] is empty
PlotRejected(den) == \A k \in 1..Len(den) : den[k] = 0

\* lines 536-542: c as floats, without its leading zeros
PlotCoeffs(den) ==
    LET nz == {k \in 1..Len(den) : Abs(den[k]) > 0}
        first == CHOOSE k \in nz : \A l \in nz : k <= l
    IN  [k \in 1..(Len(den) - first + 1) |-> Float(den[first + k - 1])]

\* lines 544-550: the table of zeros with c[0::2] and c[1::2] in rows 0, 1
PlotFirstRows(c) ==
    LET deg == Len(c) - 1
        mcols == (deg \div 2) + 1
    IN  [r \in 1..(deg + 1) |->
            [j \in 1..mcols |->
                IF r <= 2 /\ 2 * (j - 1) + r <= Len(c)
                THEN c[2 * (j - 1) + r]
                ELSE Zero]]

\* lines 561-583: the row that replaces a row of zeros, from the row above
\* it (row) and the degree order of the auxiliary polynomial
PlotDerivedRow(row, order, mcols) ==
    LET k == Cardinality({j \in 1..Len(row) : ~AbsLe(row[j], PlotZeroExp)})
        full == [p \in 1..(order + 1) |->
                    IF (p - 1) % 2 = 0 /\ (p - 1) \div 2 < k
                    THEN row[((p - 1) \div 2) + 1]
                    ELSE Zero]
        dcoef(deg) == RMul(full[order - deg], Float(deg + 1))
    IN  [j \in 1..mcols |->
            IF order - 1 - 2 * (j - 1) >= 0
            THEN dcoef(order - 1 - 2 * (j - 1))
            ELSE Zero]

\* lines 590-595: table[i, j] from the rows tbl[r - 1] = table[i - 2] and
\* tbl[r] = table[i - 1]; column j is 1-based
PlotRule(tbl, r, j) ==
    LET a == tbl[r - 1][1]
        b == tbl[r - 1][j + 1]
        c0 == tbl[r][1]
        d == tbl[r][j + 1]
    IN  IF c0.sign # 0
        THEN RDiv(RSub(RMul(c0, b), RMul(a, d)), c0)
        ELSE Zero

\* lines 556-595: the iteration for i = r, on tbl with tbl[r] = table[i - 1]
\* (rows are written in place)
PlotIteration(tbl, r, deg) ==
    LET mcols == (deg \div 2) + 1
        zero == \A j \in 1..mcols : AbsLe(tbl[r][j], PlotZeroExp)
        t1 == IF zero
              THEN [tbl EXCEPT ![r] =
                       PlotDerivedRow(tbl[r - 1], deg - (r - 2), mcols)]
              ELSE tbl
        pivot == AbsLt(t1[r][1], PlotZeroExp)
        t2 == IF pivot THEN [t1 EXCEPT ![r][1] = PlotEps] ELSE t1
    IN  [table |-> [t2 EXCEPT ![r + 1] =
                       [j \in 1..mcols |->
                           IF j <= mcols - 1 THEN PlotRule(t2, r, j)
                           ELSE t2[r + 1][j]]],
         zero_row |-> zero, used_eps |-> pivot]

\* lines 623-626: the signs of the first column without the zeros, and the
\* number of places where two neighbours differ
PlotSignChanges(first) ==
    LET signs == [k \in 1..Len(first) |->
                     IF ~AbsLe(first[k], PlotSignExp) THEN Sign(first[k]) ELSE 0]
        keep(s) == s # 0
        filtered == SelectSeq(signs, keep)
    IN  Cardinality({k \in 2..Len(filtered) : filtered[k] # filtered[k - 1]})

\* lines 619-642: the dict routh_stability returns
PlotVerdict(den, tbl, used_eps, zero_rows) ==
    LET first == [k \in 1..Len(tbl) |-> tbl[k][1]]
        n_changes == PlotSignChanges(first)
        imag_axis == \/ Len(zero_rows) > 0
                     \/ \E k \in 1..Len(first) : AbsLe(first[k], PlotSignExp)
                     \/ AbsLt(Float(den[Len(den)]), PlotZeroExp)
        strictly_stable == /\ n_changes = 0
                           /\ ~imag_axis
                           /\ \A k \in 1..Len(first) : first[k].sign > 0
    IN  [table |-> tbl, first_col |-> first, n_rhp |-> n_changes,
         strictly_stable |-> strictly_stable, imag_axis_roots |-> imag_axis,
         info |-> [used_epsilon |-> used_eps, row_of_zeros |-> zero_rows]]

\* A call routh_stability(den) not yet run (pc "idle": no such call).
\*   pc      "raw", "build", "done", "value_error", "index_error"
\*   c, table, used_eps, zero_rows, i
\*           the locals of routh_table (i: the next row index to build)
\*   ret     <<>> or <<the dict returned>>
NewPlot(p) ==
    [pc |-> p, c |-> <<>>, table |-> <<>>, used_eps |-> <<>>,
     zero_rows |-> <<>>, i |-> 0, ret |-> <<>>]

\* the denominators handed to routh_stability: those handed to the engine,
\* and (s+2)(s+3)(s+5) of run_self_tests
PlotInputs == Inputs \cup {<<1, 10, 31, 30>>}

\* The calls _poly_to_row(_row_to_poly(row, degree), len(row)).
\*   pc      "idle" (no such call), "start", "poly", "row"
\*   poly    what _row_to_poly returned; back: what _poly_to_row returned
NewHelper(p, row, degree) ==
    [pc |-> p, row |-> row, degree |-> degree, poly |-> <<>>, back |-> <<>>]

NoHelper == NewHelper("idle", <<>>, 0)

\* ------------------------------------------------------------ list objects
\* The lists of the program are objects with an identity.  A reference
\* <<a, k>> names the k-th list of arena a: arena 0 holds the list the
\* caller passes as coeffs, arena e the lists created by invocation e.
Engines == {1, 2}
Arenas == {0} \cup Engines

MaxCalls == 2    \* compute() is called at most MaxCalls times on an instance

Null == <<0, 0>>         \* a name not bound yet
CallerRef == <<0, 1>>    \* the caller's coefficient list

\* the content of a list (nothing behind a name not bound yet)
Deref(h, r) == IF r = Null THEN <<>> ELSE h[r[1]][r[2]]

\* a list of lists, row by row
DerefTable(h, r) ==
    LET rows == Deref(h, r)
    IN  [k \in 1..Len(rows) |-> Deref(h, rows[k])]

\* a new list with content v, created by invocation e
Alloc(h, e, v) ==
    [heap |-> [h EXCEPT ![e] = Append(@, v)], ref |-> <<e, Len(h[e]) + 1>>]

\* an assignment into, or an append to, the list r: its new content is v
Write(h, r, v) == [h EXCEPT ![r[1]][r[2]] = v]

\* the same list under a second name instead of a copy
CopyListAliased(h, e, r) == [heap |-> h, ref |-> r]

\* prev.copy() (line 276) and list(self._coeffs) (line 237)
CopyList(h, e, r) == Alloc(h, e, Deref(h, r))

\* the canonical coefficients written back into the list they were read from
StoreCoeffsInPlace(h, e, src, v) == [heap |-> Write(h, src, v), ref |-> src]

\* lines 218-225: the slice and the comprehensions build new lists; the
\* list src they read is left as it is
StoreCoeffs(h, e, src, v) == Alloc(h, e, v)

\* the notes list of the previous call of the instance, kept
NotesObjectKept(h, e, old) ==
    IF old = Null THEN Alloc(h, e, <<>>) ELSE [heap |-> h, ref |-> old]

\* line 251: notes = [], a new list whatever an earlier call left in old
NotesObject(h, e, old) == Alloc(h, e, <<>>)

\* a RouthResult, its list fields holding references, read through the heap
ResultValue(h, r) ==
    [r EXCEPT !.coefficients = Deref(h, r.coefficients),
              !.table = DerefTable(h, r.table),
              !.row_labels = Deref(h, r.row_labels),
              !.first_column = Deref(h, r.first_column),
              !.notes = Deref(h, r.notes)]

\* ------------------------------------------------------ the state machine
VARIABLES
    input,     \* the value of the coeffs argument when the caller built it
    heap,      \* heap[a][k]: the content of the list <<a, k>>
    eng,       \* eng[e]: invocation e, see NewEngine
    plot,      \* the call of routh_stability (utils/plot.py), see NewPlot
    helper     \* the calls of _row_to_poly and _poly_to_row, see NewHelper

vars == <<input, heap, eng, plot, helper>>

\* An invocation RouthHurwitz(coeffs, **c) not yet run.
\*   pc           "raw", "constructed", "build", "done", "invalid",
\*                "zero_division" ("idle": never started)
\*   cfg          the keyword arguments epsilon, zero_row_epsilon,
\*                normalize_leading
\*   self_coeffs  self._coeffs;  n: self._n
\*   labels, table, notes, prev, i
\*                the locals row_labels, table, notes, prev and the loop
\*                variable of line 269 (the next row index to build) of the
\*                latest call of _build_routh_table
\*   results      the RouthResults returned by compute() so far
NewEngine(c) ==
    [pc |-> "raw", cfg |-> c, self_coeffs |-> Null, n |-> -1,
     labels |-> Null, table |-> Null, notes |-> Null, prev |-> Null,
     i |-> 0, results |-> <<>>]

Idle == [NewEngine(DefaultConfig) EXCEPT !.pc = "idle"]

\* one invocation on the caller's list
Init ==
    /\ input \in Inputs
    /\ heap = [a \in Arenas |-> IF a = 0 THEN <<input>> ELSE <<>>]
    /\ \E c \in Configs :
          eng = [e \in Engines |-> IF e = 1 THEN NewEngine(c) ELSE Idle]
    /\ plot = NewPlot("idle")
    /\ helper = NoHelper

\* RouthHurwitz.__init__: raises RouthHurwitzError or stores the canonical
\* coefficients and the degree
Construct(e) ==
    /\ eng[e].pc = "raw"
    /\ LET c == eng[e].cfg
           arg == Deref(heap, CallerRef)
       IN  IF Rejected(arg, c)
           THEN /\ eng' = [eng EXCEPT ![e].pc = "invalid"]
                /\ UNCHANGED heap
           ELSE \E canonical \in {Canonical(arg, c)} :
                  \E s \in {StoreCoeffs(heap, e, CallerRef, canonical)} :
                    /\ heap' = s.heap
                    /\ eng' = [eng EXCEPT ![e].pc = "constructed",
                                          ![e].self_coeffs = s.ref,
                                          ![e].n = Len(canonical) - 1]
    /\ UNCHANGED <<input, plot, helper>>

\* compute() entering _build_routh_table: lines 248-266
StartTable(e) ==
    /\ eng[e].pc = "constructed"
    /\ LET s == eng[e]
           rows == FirstRows(Deref(heap, s.self_coeffs), s.n)
           l == Alloc(heap, e, RowLabels(s.n))
           o == NotesObject(l.heap, e, s.notes)
           r0 == Alloc(o.heap, e, rows[1])
           r1 == Alloc(r0.heap, e, rows[2])
           t == Alloc(r1.heap, e, <<r0.ref, r1.ref>>)
       IN  /\ heap' = t.heap
           /\ eng' = [eng EXCEPT ![e].pc = "build",
                                 ![e].labels = l.ref,
                                 ![e].notes = o.ref,
                                 ![e].table = t.ref,
                                 ![e].prev = Null,
                                 ![e].i = 2]
    /\ UNCHANGED <<input, plot, helper>>

\* one iteration of the loop of line 269: prev names the row table[i-1], or
\* a copy of it once the pivot is substituted; the notes are appended to the
\* notes list and the new row to the table.  A zero divisor at line 300 ends
\* the call with ZeroDivisionError
BuildNextRow(e) ==
    /\ eng[e].pc = "build"
    /\ eng[e].i <= eng[e].n
    /\ \E r \in {BuildRow(DerefTable(heap, eng[e].table),
                           Deref(heap, eng[e].notes), eng[e].i, eng[e].n,
                           eng[e].cfg)} :
         LET s == eng[e]
             rows == Deref(heap, s.table)
             tbl == DerefTable(heap, s.table)
             p == IF NearZero(tbl[s.i][1], s.cfg)
                  THEN CopyList(heap, e, rows[s.i])
                  ELSE [heap |-> heap, ref |-> rows[s.i]]
             h == Write(Write(p.heap, p.ref, r.prev), s.notes, r.notes)
             new_row == Alloc(h, e, r.row)
         IN  IF r.raised
             THEN /\ heap' = h
                  /\ eng' = [eng EXCEPT ![e].pc = "zero_division",
                                        ![e].prev = p.ref]
             ELSE /\ heap' = Write(new_row.heap, s.table,
                                   Append(rows, new_row.ref))
                  /\ eng' = [eng EXCEPT ![e].prev = p.ref,
                                        ![e].i = s.i + 1]
    /\ UNCHANGED <<input, plot, helper>>

\* the loop is over: _build_routh_table returns and compute() assembles
\* the RouthResult (lines 305, 233-244) around the lists table, row_labels
\* and notes, a new first_col and a copy of self._coeffs
Return(e) ==
    /\ eng[e].pc = "build"
    /\ eng[e].i > eng[e].n
    /\ \E v \in {Assemble(Deref(heap, eng[e].self_coeffs), eng[e].n,
                           DerefTable(heap, eng[e].table),
                           Deref(heap, eng[e].notes))} :
         LET s == eng[e]
             f == Alloc(heap, e, v.first_column)
             c == CopyList(f.heap, e, s.self_coeffs)
             res == [v EXCEPT !.coefficients = c.ref,
                              !.table = s.table,
                              !.row_labels = s.labels,
                              !.first_column = f.ref,
                              !.notes = s.notes]
         IN  /\ heap' = c.heap
             /\ eng' = [eng EXCEPT ![e].pc = "done",
                                   ![e].results = Append(@, res)]
    /\ UNCHANGED <<input, plot, helper>>

Next == Construct(1) \/ StartTable(1) \/ BuildNextRow(1) \/ Return(1)

Spec == Init /\ [][Next]_vars

\* ------------------------------------- two invocations, repeated calls
\* compute() called once more on an instance that has returned
ComputeAgain(e) ==
    /\ eng[e].pc = "done"
    /\ Len(eng[e].results) < MaxCalls
    /\ eng' = [eng EXCEPT ![e].pc = "constructed"]
    /\ UNCHANGED <<input, heap, plot, helper>>

\* the coefficient lists handed to the two invocations: up to three
\* coefficients, leading zeros, all-zero and empty lists included
PairInputs ==
    {cs \in Inputs : Len(cs) <= 3 /\ \A k \in 1..Len(cs) : cs[k] \in {-1, 0, 2}}

\* two invocations on the same caller's list, each with its own keyword
\* arguments, their steps interleaved in any order
InitPair ==
    /\ input \in PairInputs
    /\ heap = [a \in Arenas |-> IF a = 0 THEN <<input>> ELSE <<>>]
    /\ \E c1 \in Configs, c2 \in Configs :
          eng = [e \in Engines |-> NewEngine(IF e = 1 THEN c1 ELSE c2)]
    /\ plot = NewPlot("idle")
    /\ helper = NoHelper

NextPair ==
    \E e \in Engines :
        \/ Construct(e)
        \/ StartTable(e)
        \/ BuildNextRow(e)
        \/ Return(e)
        \/ ComputeAgain(e)

SpecPair == InitPair /\ [][NextPair]_vars

\* ------------------------------------- coefficients given as floats
\* The caller's list holding Python floats instead of ints: float(c) is c
\* itself.  The coefficients 1e180 and 1e-320 and the epsilon 1e-300 take the
\* recurrence out of the range of the normal floats.
BigCoef == [sign |-> 1, exp |-> 542, mant |-> <<6304, 2702, 10663, 15793>>]
SmallCoef == [sign |-> 1, exp |-> -1119, mant |-> <<0, 0, 0, 16192>>]
TinyEpsilon == [sign |-> 1, exp |-> -1052, mant |-> <<6856, 7966, 4065, 10972>>]

MaxFloatLen == 4    \* longest enumerated sequence of float coefficients

FloatCoefs == {Zero, Float(1), Float(-1), BigCoef, SmallCoef}

FloatInputs == SeqsUpTo(FloatCoefs, MaxFloatLen)

FloatConfigs ==
    [epsilon : {DefaultEpsilon, Float(1), TinyEpsilon},
     zero_row_exp : {DefaultZeroRowExp}, normalize_leading : BOOLEAN]

\* the while loop of lines 211-213 on floats
RECURSIVE SkipLeadingFloats(_, _, _)
SkipLeadingFloats(cs, i, c) ==
    IF i < Len(cs) /\ NearZero(cs[i + 1], c)
    THEN SkipLeadingFloats(cs, i + 1, c)
    ELSE i

\* the three raise statements of lines 206-215 on floats
RejectedFloats(cs, c) ==
    \/ cs = <<>>
    \/ \A k \in 1..Len(cs) : NearZero(cs[k], c)
    \/ SkipLeadingFloats(cs, 0, c) = Len(cs)

\* lines 216-223 on floats: abs(coeffs[0]) > 0 is false of nan
CanonicalFloats(cs, c) ==
    LET k0 == SkipLeadingFloats(cs, 0, c)
        stripped == SubSeq(cs, k0 + 1, Len(cs))
    IN  IF c.normalize_leading /\ MagLt(Zero, stripped[1])
        THEN [k \in 1..Len(stripped) |-> RDiv(stripped[k], stripped[1])]
        ELSE stripped

InitFloats ==
    /\ input \in FloatInputs
    /\ heap = [a \in Arenas |-> IF a = 0 THEN <<input>> ELSE <<>>]
    /\ \E c \in FloatConfigs :
          eng = [e \in Engines |-> IF e = 1 THEN NewEngine(c) ELSE Idle]
    /\ plot = NewPlot("idle")
    /\ helper = NoHelper

\* RouthHurwitz.__init__ on a list of floats
ConstructFloats(e) ==
    /\ eng[e].pc = "raw"
    /\ LET c == eng[e].cfg
           arg == Deref(heap, CallerRef)
       IN  IF RejectedFloats(arg, c)
           THEN /\ eng' = [eng EXCEPT ![e].pc = "invalid"]
                /\ UNCHANGED heap
           ELSE \E canonical \in {CanonicalFloats(arg, c)} :
                  \E s \in {StoreCoeffs(heap, e, CallerRef, canonical)} :
                    /\ heap' = s.heap
                    /\ eng' = [eng EXCEPT ![e].pc = "constructed",
                                          ![e].self_coeffs = s.ref,
                                          ![e].n = Len(canonical) - 1]
    /\ UNCHANGED <<input, plot, helper>>

NextFloats ==
    ConstructFloats(1) \/ StartTable(1) \/ BuildNextRow(1) \/ Return(1)

SpecFloats == InitFloats /\ [][NextFloats]_vars

\* ------------------------------------- _row_to_poly and _poly_to_row
\* the degrees 0..MaxDegree and the rows of at most MaxCols entries in
\* -1..1 handed to _row_to_poly
MaxDegree == 4
MaxCols == 3
HelperRows ==
    {[k \in 1..Len(r) |-> Float(r[k])] : r \in SeqsUpTo((-1)..1, MaxCols)}

InitHelper ==
    /\ input = <<>>
    /\ heap = [a \in Arenas |-> IF a = 0 THEN <<input>> ELSE <<>>]
    /\ eng = [e \in Engines |-> Idle]
    /\ plot = NewPlot("idle")
    /\ \E row \in HelperRows, degree \in 0..MaxDegree :
          helper = NewHelper("start", row, degree)

\* poly = _row_to_poly(row, degree)
RowToPolyCall ==
    /\ helper.pc = "start"
    /\ helper' = [helper EXCEPT !.pc = "poly",
                                !.poly = RowToPoly(helper.row, helper.degree)]
    /\ UNCHANGED <<input, heap, eng, plot>>

\* back = _poly_to_row(poly, len(row))
PolyToRowCall ==
    /\ helper.pc = "poly"
    /\ helper' = [helper EXCEPT !.pc = "row",
                                !.back = PolyToRow(helper.poly, Len(helper.row))]
    /\ UNCHANGED <<input, heap, eng, plot>>

NextHelper == RowToPolyCall \/ PolyToRowCall

SpecHelper == InitHelper /\ [][NextHelper]_vars

\* ---------------------------------- routh_stability of utils/plot.py
InitPlot ==
    /\ input \in PlotInputs
    /\ heap = [a \in Arenas |-> IF a = 0 THEN <<input>> ELSE <<>>]
    /\ eng = [e \in Engines |-> Idle]
    /\ plot = NewPlot("raw")
    /\ helper = NoHelper

\* routh_table up to its loop (lines 536-553): ValueError for a null
\* polynomial (the empty list included), IndexError at line 550 for a
\* constant, whose table has no row 1
PlotStart ==
    /\ plot.pc = "raw"
    /\ LET den == Deref(heap, CallerRef)
       IN  IF PlotRejected(den)
           THEN plot' = [plot EXCEPT !.pc = "value_error"]
           ELSE IF Len(PlotCoeffs(den)) = 1
           THEN plot' = [plot EXCEPT !.pc = "index_error",
                                     !.c = PlotCoeffs(den)]
           ELSE plot' = [plot EXCEPT !.pc = "build",
                                     !.c = PlotCoeffs(den),
                                     !.table = PlotFirstRows(PlotCoeffs(den)),
                                     !.i = 2]
    /\ UNCHANGED <<input, heap, eng, helper>>

\* one iteration of the loop of line 556
PlotNextRow ==
    /\ plot.pc = "build"
    /\ plot.i <= Len(plot.c) - 1
    /\ LET r == PlotIteration(plot.table, plot.i, Len(plot.c) - 1)
       IN  plot' = [plot EXCEPT
                       !.table = r.table,
                       !.zero_rows = IF r.zero_row THEN Append(@, plot.i - 1) ELSE @,
                       !.used_eps = IF r.used_eps THEN Append(@, plot.i - 1) ELSE @,
                       !.i = plot.i + 1]
    /\ UNCHANGED <<input, heap, eng, helper>>

\* routh_table returns and routh_stability builds its dict (lines 597-642)
PlotReturn ==
    /\ plot.pc = "build"
    /\ plot.i > Len(plot.c) - 1
    /\ plot' = [plot EXCEPT
                   !.pc = "done",
                   !.ret = <<PlotVerdict(Deref(heap, CallerRef), plot.table,
                                         plot.used_eps, plot.zero_rows)>>]
    /\ UNCHANGED <<input, heap, eng, helper>>

NextPlot == PlotStart \/ PlotNextRow \/ PlotReturn

SpecPlot == InitPlot /\ [][NextPlot]_vars

\* ----------------------------------------------- invocation 1, by value
cfg == eng[1].cfg
pc == eng[1].pc
coeffs == Deref(heap, eng[1].self_coeffs)          \* self._coeffs
n == eng[1].n                                      \* self._n
table == DerefTable(heap, eng[1].table)
notes == Deref(heap, eng[1].notes)
i == eng[1].i
prev == Deref(heap, eng[1].prev)
\* <<>> or the RouthResults returned by compute()
result ==
    [k \in 1..Len(eng[1].results) |-> ResultValue(heap, eng[1].results[k])]

\* the RouthResult of a finished call
Res == result[1]
Done == pc = "done"

\* ======================================================== the claims

\* C1: for every accepted coefficient sequence, degree 0 included, and
\* every configuration, the returned table has exactly order+1 rows and
\* every row has exactly floor(order/2)+1 entries.
C1_TableShape ==
    Done =>
        /\ Len(Res.table) = Res.order + 1
        /\ \A k \in 1..Len(Res.table) :
              Len(Res.table[k]) = (Res.order \div 2) + 1

\* C2: for every valid input and every configuration the result satisfies
\* 0 <= rhp_poles <= order.
C2_RhpWithinOrder ==
    Done => (0 <= Res.rhp_poles /\ Res.rhp_poles <= Res.order)

\* ---- polynomials with known roots (the reference for C3)
RECURSIVE ConvSum(_, _, _, _)
ConvSum(p, q, k, j) ==
    IF j > Len(p) THEN 0
    ELSE (IF k - j + 1 >= 1 /\ k - j + 1 <= Len(q) THEN p[j] * q[k - j + 1] ELSE 0)
         + ConvSum(p, q, k, j + 1)

\* the product of two integer polynomials, highest power first
PolyMul(p, q) == [k \in 1..(Len(p) + Len(q) - 1) |-> ConvSum(p, q, k, 1)]

\* s - r has the single root r; s^2 + b s + c with c > 0 has two roots whose
\* real parts have the sign of -b (a complex pair with real part -b/2, or
\* two real roots of the same sign whose sum is -b).  Each factor is paired
\* with the number of its roots of strictly positive real part.
MaxRoot == 2
KnownFactors ==
    {<< <<1, -r>>, IF r > 0 THEN 1 ELSE 0 >> : r \in (-MaxRoot)..MaxRoot}
    \cup {<< <<1, b, c>>, IF b < 0 THEN 2 ELSE 0 >> :
             b \in (-MaxRoot)..MaxRoot, c \in 1..MaxRoot}

\* the monic products of at most k known factors, of degree below MaxLen,
\* each paired with its number of roots of strictly positive real part
RECURSIVE KnownProducts(_)
KnownProducts(k) ==
    IF k = 0 THEN {<< <<1>>, 0 >>}
    ELSE LET P == KnownProducts(k - 1)
         IN  P \cup {<< PolyMul(e[1], f[1]), e[2] + f[2] >> :
                        e \in {x \in P : Len(x[1]) < MaxLen}, f \in KnownFactors}

\* every polynomial lead * product with its root count
KnownPolys ==
    {<< [k \in 1..Len(e[1]) |-> lead * e[1][k]], e[2] >> :
        e \in {x \in KnownProducts(MaxLen - 1) : Len(x[1]) <= MaxLen},
        lead \in Coefs \ {0}}

\* C3: for every valid polynomial, those whose Routh table has a zero in the
\* first column included, rhp_poles equals the number of roots with strictly
\* positive real part.  Checked on the polynomials whose factorisation, and
\* so whose roots, are known.
\* Stated for the default configuration.
C3_RhpEqualsRootCount ==
    (Done /\ cfg = DefaultConfig) =>
        \A r \in 0..MaxLen :
            (<<input, r>> \in KnownPolys) => Res.rhp_poles = r

\* C4: enabling or disabling normalize_leading never changes the verdict:
\* the same input under the same epsilon and zero_row_epsilon returns the
\* same rhp_poles and is_stable.  Stated for the default epsilon and for
\* inputs of at least two coefficients.
C4_NormalizeKeepsVerdict ==
    (Done /\ cfg.epsilon = DefaultEpsilon /\ Len(input) >= 2) =>
        LET o == Run(input, [cfg EXCEPT !.normalize_leading = ~@])
        IN  /\ o.status = "done"
            /\ o.result[1].rhp_poles = Res.rhp_poles
            /\ o.result[1].is_stable = Res.is_stable

\* the positive scalars of C5
Scalars == {2, 3}
Scale(c, cs) == [k \in 1..Len(cs) |-> c * cs[k]]

\* C5: scale invariance: for every valid input and positive scalar c the
\* engine returns the same rhp_poles and is_stable on coefficients and on
\* c * coefficients under the same configuration.
C5_ScaleInvariance ==
    Done =>
        \A c \in Scalars :
            LET o == Run(Scale(c, input), cfg)
            IN  /\ o.status = "done"
                /\ o.result[1].rhp_poles = Res.rhp_poles
                /\ o.result[1].is_stable = Res.is_stable

\* the input of C6: empty, or every element within zero_row_epsilon of zero
AllWithinTolerance(cs, c) ==
    \A k \in 1..Len(cs) : AbsLt(Float(cs[k]), c.zero_row_exp)

\* C6: an empty coefficient sequence, or one whose every element is within
\* zero_row_epsilon of zero, is rejected at construction: the call never
\* gets past the constructor, no table row is built and no RouthResult is
\* produced.
C6_InvalidInputRejected ==
    AllWithinTolerance(input, cfg) =>
        /\ pc \in {"raw", "invalid"}
        /\ table = <<>>
        /\ result = <<>>

C6_Witness == pc = "invalid" /\ input = <<0, 0, 0>>

\* C7: for every input that passes validation and every configuration the
\* constructor accepts, the rows are built once each in increasing order
\* and the run never ends in an exception: it always goes on to assemble
\* and return a RouthResult.
C7_RunAlwaysCompletes ==
    /\ pc # "zero_division"
    /\ pc = "build" => Len(table) = i

\* C8: with the default configuration the divisor of every step of the
\* Routh recurrence is non-zero: no step divides by zero and every entry of
\* first_column is a finite number.
\* Violated on float coefficients: the divisor is never zero, but for
\* [1, 1e180, 1e180] the product 1e180 * 1e180 of line 300 overflows and
\* first_column is 1, 1e180, inf.
C8_DivisorNonZero ==
    cfg = DefaultConfig =>
        /\ pc # "zero_division"
        /\ (pc = "build" /\ i > 2) => prev[1] # Zero
        /\ Done => \A k \in 1..Len(Res.first_column) :
                      Finite(Res.first_column[k])

\* C9: for an input whose second row is entirely zero, such as
\* [1, 0, 2, 0, 1], the zero row triggers the auxiliary-polynomial path: the
\* result carries exactly one note, the zero-row note, with rhp_poles = 0
\* and is_stable = true.
C9_ZeroRowUsesAuxiliary ==
    (Done /\ cfg = DefaultConfig /\ input = <<1, 0, 2, 0, 1>>) =>
        /\ Len(Res.notes) = 1
        /\ Res.notes[1].kind = "zero_row"
        /\ Res.rhp_poles = 0
        /\ Res.is_stable

\* C10: whenever the row about to serve as divisor has a near-zero first
\* entry, the divisor row of the iteration carries the configured epsilon
\* in its place and exactly one note naming that row and the substituted
\* value has been appended (none when the entry is not near zero);
\* [1, 0, 2, 0] under the default configuration yields exactly one note,
\* the pivot substitution, and rhp_poles = 0.
C10_PivotSubstitutionNoted ==
    /\ (pc = "build" /\ i > 2) =>
          LET orig == table[i - 1]
              label == RowLabels(n)[i - 1]
              named == {k \in 1..Len(notes) :
                           notes[k].kind = "pivot" /\ notes[k].label = label}
          IN  IF AbsLt(orig[1], cfg.zero_row_exp)
              THEN /\ prev = [orig EXCEPT ![1] = cfg.epsilon]
                   /\ Cardinality(named) = 1
                   /\ \A k \in named : notes[k].epsilon = cfg.epsilon
              ELSE /\ prev = orig
                   /\ named = {}
    /\ (Done /\ cfg = DefaultConfig /\ input = <<1, 0, 2, 0>>) =>
          /\ Len(Res.notes) = 1
          /\ Res.notes[1].kind = "pivot"
          /\ Res.notes[1].label = 2
          /\ Res.notes[1].epsilon = DefaultEpsilon
          /\ Res.rhp_poles = 0

C10_Witness ==
    /\ Done
    /\ cfg = DefaultConfig
    /\ input = <<1, 0, 2, 0>>
    /\ Len(Res.notes) = 1
    /\ prev = <<Float(2), Zero>>

\* the number of adjacent pairs of values with strictly opposite signs
PlainSignChanges(values) ==
    Cardinality({k \in 1..(Len(values) - 1) :
                    Sign(values[k]) * Sign(values[k + 1]) < 0})

\* no row used as a divisor (rows 1..order-1) has a near-zero pivot
NoNearZeroDivisor(tbl, order, c) ==
    \A k \in 2..order : ~AbsLt(tbl[k][1], c.zero_row_exp)

\* C11: for inputs in which no row used as a divisor has a near-zero pivot
\* the result has no notes and rhp_poles is the plain sign-change count of
\* the first column; [1, 2, 3, 4] and [1, 2, 2] give rhp_poles = 0,
\* is_stable = true, no notes and [1, -2, 2] gives rhp_poles = 2,
\* is_stable = false, no notes.  Stated for the default configuration.
C11_PlainCountWithoutNotes ==
    (Done /\ cfg = DefaultConfig) =>
        /\ NoNearZeroDivisor(Res.table, Res.order, cfg) =>
              /\ Res.notes = <<>>
              /\ Res.rhp_poles = PlainSignChanges(Res.first_column)
              /\ Res.is_stable = (PlainSignChanges(Res.first_column) = 0)
        /\ input \in {<<1, 2, 3, 4>>, <<1, 2, 2>>} =>
              (Res.rhp_poles = 0 /\ Res.is_stable /\ Res.notes = <<>>)
        /\ input = <<1, -2, 2>> =>
              (Res.rhp_poles = 2 /\ ~Res.is_stable /\ Res.notes = <<>>)

\* C14: in every returned result is_stable is true exactly when rhp_poles
\* equals 0.
C14_StableIffNoRhpPoles ==
    \A k \in 1..Len(result) : result[k].is_stable <=> (result[k].rhp_poles = 0)

C14_Witness == Done /\ Res.rhp_poles = 1 /\ ~Res.is_stable

\* s^2 + c with c > 0 has the purely imaginary pair +-i sqrt(c)
ImaginaryFactors == {<<1, 0, c>> : c \in 1..MaxRoot}

\* s + r with r > 0 and s^2 + b s + c with b, c > 0 have only roots of
\* negative real part
StableFactors ==
    {<<1, r>> : r \in 1..MaxRoot}
    \cup {<<1, b, c>> : b \in 1..MaxRoot, c \in 1..MaxRoot}

\* the monic products of at most k such factors, of degree at most MaxLen,
\* each paired with whether a purely imaginary pair is among its roots
RECURSIVE MarginalProducts(_)
MarginalProducts(k) ==
    IF k = 0 THEN {<< <<1>>, FALSE >>}
    ELSE LET P == MarginalProducts(k - 1)
             Q == {x \in P : Len(x[1]) <= MaxLen}
         IN  P \cup {<< PolyMul(e[1], f), TRUE >> : e \in Q, f \in ImaginaryFactors}
               \cup {<< PolyMul(e[1], f), e[2] >> : e \in Q, f \in StableFactors}

\* lead * product for the products of degree at most MaxLen that have a
\* purely imaginary pair
MarginalPolys ==
    {[k \in 1..Len(e[1]) |-> lead * e[1][k]] :
        e \in {x \in MarginalProducts(MaxLen) : x[2] /\ Len(x[1]) <= MaxLen + 1},
        lead \in Coefs \ {0}}

\* C15: for every polynomial whose roots are purely imaginary pairs together
\* with roots of negative real part only, the engine reports rhp_poles = 0
\* and is_stable = true.  Stated for the default epsilon, with and without
\* normalisation of the leading coefficient, on the enumerated products and
\* on (3 s + 1)(s^2 + 100000) and (s^2 + 4)(s + 1)(s^2 + s + 1)(s^2 + 4 s + 1).
C15_MarginalReportedStable ==
    (Done /\ cfg.epsilon = DefaultEpsilon
          /\ input \in MarginalPolys \cup {<<3, 1, 300000, 100000>>,
                                           <<1, 6, 15, 35, 50, 45, 24, 4>>}) =>
        (Res.rhp_poles = 0 /\ Res.is_stable)

\* the notes owed to divisor row k (the row at 0-based index k - 1 of tbl):
\* a pivot note when its first entry is near zero, then a zero-row note when
\* the row is entirely near zero once the substitution is made
NotesOwed(tbl, k, order, c) ==
    LET row == tbl[k]
        label == order - (k - 1)
        pivot == AbsLt(row[1], c.zero_row_exp)
        after == IF pivot THEN [row EXCEPT ![1] = c.epsilon] ELSE row
        zero == \A j \in 1..Len(after) : AbsLt(after[j], c.zero_row_exp)
    IN  (IF pivot THEN <<PivotNote(label, c.epsilon)>> ELSE <<>>)
        \o (IF zero THEN <<ZeroRowNote(label)>> ELSE <<>>)

\* the notes owed to the divisor rows k..order of a finished table, in
\* increasing row order
RECURSIVE ExpectedNotes(_, _, _, _)
ExpectedNotes(tbl, k, order, c) ==
    IF k > order THEN <<>>
    ELSE NotesOwed(tbl, k, order, c) \o ExpectedNotes(tbl, k + 1, order, c)

\* C17: notes holds exactly one entry for each pivot substitution or
\* zero-row resolution performed while building rows 2..n, in increasing row
\* order, and is empty when none was performed; these degeneracies are
\* recorded on a successful result and never raise an error.
C17_NotesRecordDegeneracies ==
    /\ pc # "zero_division"
    /\ Done => Res.notes = ExpectedNotes(Res.table, 2, Res.order, cfg)

\* C18: in every BuildRow(i) for i in 2..n the test for an entirely
\* near-zero prev and the Zero-Row Resolver come first and the pivot test
\* second: a prev row that is entirely near-zero is handled by the Zero-Row
\* Resolver (a zero-row note names it, the new row is the derivative of the
\* auxiliary polynomial, and no pivot is substituted in it).  Stated for the
\* default configuration, on the iteration just completed.
C18_ZeroRowTestFirst ==
    (pc = "build" /\ i > 2 /\ cfg = DefaultConfig) =>
        LET orig == table[i - 1]
            label == RowLabels(n)[i - 1]
        IN  AllNearZero(orig, cfg) =>
               /\ \E k \in 1..Len(notes) :
                     notes[k] = ZeroRowNote(label)
               /\ \A k \in 1..Len(notes) :
                     ~(notes[k].kind = "pivot" /\ notes[k].label = label)
               /\ prev = orig
               /\ table[i] = AuxiliaryRow(table[i - 2], n, i - 1, MCols(n))

\* an entry that _count_sign_changes leaves as it is
KeptEntry(x) == ~AbsLt(x, SignTolExp)

\* the sign changes of a first column in which the near-zero entries
\* contribute none: those among the entries left as they are
ChangesWithoutSubstituted(values) ==
    PlainSignChanges(SelectSeq(values, KeptEntry))

\* C19: sign-change counting replaces every near-zero first-column entry by
\* a fixed tiny positive value, and this substitution never changes the
\* count: the count for any first column equals the count obtained without
\* the substituted entries contributing a sign change (a first column
\* negative, zero, negative counts 0 changes).  Stated for the default
\* configuration.
C19_SubstitutionNeverCounts ==
    (Done /\ cfg = DefaultConfig) =>
        Res.rhp_poles = ChangesWithoutSubstituted(Res.first_column)

\* C20: after a zero row is resolved, the re-interleaved derivative of the
\* auxiliary polynomial is the replacement for the zero row itself: in the
\* returned table the slot of the row that was found entirely near-zero (the
\* row its zero-row note names) holds the derivative row, not zeros.
C20_DerivativeReplacesZeroRow ==
    Done =>
        \A k \in 1..Len(Res.notes) :
            Res.notes[k].kind = "zero_row" =>
                LET slot == Res.order - Res.notes[k].label + 1
                IN  Res.table[slot] =
                        AuxiliaryRow(Res.table[slot - 1], Res.order, slot,
                                     MCols(Res.order))

\* ------------------------------------------ claims on several invocations
\* the RouthResults invocation e has returned, by value
ResultsOf(e) ==
    [k \in 1..Len(eng[e].results) |-> ResultValue(heap, eng[e].results[k])]

\* C12: determinism.  Two invocations with identical input and identical
\* configuration (two instances, or compute() called twice on one
\* instance) return identical order, coefficients, table, row_labels,
\* first_column, rhp_poles, is_stable and notes; and when one of them ends
\* in an exception the other returns nothing either.
C12_Determinism ==
    \A e1 \in Engines, e2 \in Engines :
        eng[e1].cfg = eng[e2].cfg =>
            /\ \A k1 \in 1..Len(eng[e1].results), k2 \in 1..Len(eng[e2].results) :
                  ResultsOf(e1)[k1] = ResultsOf(e2)[k2]
            /\ eng[e1].pc = "invalid" => eng[e2].pc \in {"raw", "invalid"}
            /\ eng[e1].pc = "zero_division" => eng[e2].results = <<>>

\* two instances with the same keyword arguments on 2 s^2 + 2, the first
\* having returned twice, the second once, each result with its note
C12_Witness ==
    /\ input = <<2, 0, 2>>
    /\ eng[1].cfg = eng[2].cfg
    /\ eng[1].cfg.normalize_leading
    /\ Len(eng[1].results) = 2
    /\ Len(eng[2].results) = 1
    /\ Len(ResultsOf(1)[2].notes) = 1
    /\ ResultsOf(2)[1].coefficients = <<Float(1), Zero, Float(1)>>

\* the lists invocation e holds a name for: self._coeffs, the locals of its
\* latest call, and the lists of the results it has returned
Held(e) ==
    ({eng[e].self_coeffs, eng[e].labels, eng[e].table, eng[e].notes,
      eng[e].prev}
     \cup {Deref(heap, eng[e].table)[k] : k \in 1..Len(Deref(heap, eng[e].table))}
     \cup UNION {{r.coefficients, r.table, r.row_labels, r.first_column, r.notes}
                 \cup {Deref(heap, r.table)[k] : k \in 1..Len(Deref(heap, r.table))} :
                 r \in {eng[e].results[k] : k \in 1..Len(eng[e].results)}})
    \ {Null}

\* how invocation e stands against Run, the same invocation running alone
AsAlone(e) ==
    LET alone == Run(input, eng[e].cfg)
    IN  /\ eng[e].pc = "invalid" <=> (eng[e].pc # "raw" /\ alone.status = "invalid")
        /\ eng[e].pc = "zero_division" => alone.status = "zero_division"
        /\ \A k \in 1..Len(eng[e].results) :
              alone.status = "done" /\ ResultsOf(e)[k] = alone.result[1]

\* C13: independent invocations share no mutable state.  Constructing an
\* engine and calling compute() modifies neither the caller's coefficient
\* sequence nor the engine instance (self._coeffs and self._n stay the
\* canonical coefficients and the degree), the two invocations hold no list
\* in common, and under any interleaving of their steps each invocation
\* ends as it does running alone, with the same results.
C13_NoSharedMutableState ==
    /\ \A e \in Engines : CallerRef \notin Held(e)
    /\ Held(1) \cap Held(2) = {}
    /\ Deref(heap, CallerRef) = input
    /\ \A e \in Engines :
          /\ eng[e].pc \notin {"raw", "invalid"} =>
                /\ Deref(heap, eng[e].self_coeffs) = Canonical(input, eng[e].cfg)
                /\ eng[e].n = Len(Canonical(input, eng[e].cfg)) - 1
          /\ AsAlone(e)

\* both invocations inside _build_routh_table at once, with different
\* keyword arguments, on a list that normalisation does not leave as it is
C13_Witness ==
    /\ input = <<2, 0, 2>>
    /\ eng[1].pc = "build" /\ eng[1].i = 3
    /\ eng[2].pc = "build" /\ eng[2].i = 2
    /\ Len(eng[2].results) = 1
    /\ eng[1].cfg.normalize_leading /\ ~eng[2].cfg.normalize_leading
    /\ Deref(heap, eng[1].self_coeffs) = <<Float(1), Zero, Float(1)>>
    /\ Deref(heap, eng[2].self_coeffs) = <<Float(2), Zero, Float(2)>>
    /\ Deref(heap, CallerRef) = <<2, 0, 2>>

\* the lists a RouthResult is made of: its list fields and its table rows
ResultLists(r) ==
    {r.coefficients, r.table, r.row_labels, r.first_column, r.notes}
    \cup {Deref(heap, r.table)[k] : k \in 1..Len(Deref(heap, r.table))}

\* the lists of engine state: self._coeffs, and the locals of a call of
\* compute() that has not returned
EngineLists(e) ==
    ({eng[e].self_coeffs}
     \cup IF eng[e].pc \in {"build", "zero_division"}
          THEN {eng[e].labels, eng[e].table, eng[e].notes, eng[e].prev}
               \cup {Deref(heap, eng[e].table)[k] :
                        k \in 1..Len(Deref(heap, eng[e].table))}
          ELSE {})
    \ {Null}

\* no list of a returned result is the caller's coefficient list, a list of
\* engine state, or a list of another result
NoSharedList ==
    \A e \in Engines : \A k \in 1..Len(eng[e].results) :
        LET mine == ResultLists(eng[e].results[k])
        IN  /\ CallerRef \notin mine
            /\ Cardinality(mine) = 5 + Len(Deref(heap, eng[e].results[k].table))
            /\ \A f \in Engines :
                  /\ mine \cap EngineLists(f) = {}
                  /\ \A l \in 1..Len(eng[f].results) :
                        (f # e \/ l # k) =>
                            mine \cap ResultLists(eng[f].results[l]) = {}

\* a step leaves every result returned so far as it is
ResultsFrozen ==
    \A e \in Engines :
        /\ Len(eng'[e].results) >= Len(eng[e].results)
        /\ \A k \in 1..Len(eng[e].results) :
              /\ eng'[e].results[k] = eng[e].results[k]
              /\ ResultValue(heap', eng[e].results[k])
                    = ResultValue(heap, eng[e].results[k])

\* C16: a returned RouthResult never changes after construction: it shares
\* no mutable list with the engine (coefficients, table rows and notes are
\* not aliased to engine state), and no later engine operation, such as a
\* second compute() on the same instance, alters a previously returned
\* result.
C16_ResultNeverChanges == []NoSharedList /\ [][ResultsFrozen]_vars

\* a second compute() on the instance has substituted a pivot and noted it
\* while the first result is in the caller's hands
C16_Witness ==
    /\ input = <<2, 0, 2>>
    /\ Len(eng[1].results) = 1
    /\ eng[1].pc = "build" /\ eng[1].i = 3
    /\ Len(Deref(heap, eng[1].notes)) = 1
    /\ eng[1].prev \notin ResultLists(eng[1].results[1])
    /\ Len(ResultsOf(1)[1].notes) = 1

\* ------------------------------------------------ claims on the row rules
\* the row the claim of C21 describes, for prev2 at row index i - 2 of a
\* table of degree order with m_cols columns (0-based k, d = order - (i - 2))
DerivativeRow(prev2, order, idx, m_cols) ==
    LET d == order - (idx - 2)
    IN  [c \in 1..m_cols |->
            IF d - 2 * (c - 1) >= 1
            THEN RMul(prev2[c], Float(d - 2 * (c - 1)))
            ELSE Zero]

\* C21: when the Zero-Row Resolver runs at row index i, the row it produces
\* has length m and holds prev2[k] * (d - 2k) for every k with d - 2k >= 1
\* and 0 for every other k, where d = n - (i - 2).  Stated on the iteration
\* just completed (the row built is the last of the table, at index i - 1).
C21_ResolverRowIsDerivative ==
    (pc = "build" /\ i > 2 /\ notes # <<>>
        /\ notes[Len(notes)] = ZeroRowNote(RowLabels(n)[i - 1])) =>
        /\ Len(table[i]) = MCols(n)
        /\ table[i] = DerivativeRow(table[i - 2], n, i - 1, MCols(n))

\* s^4 + 2 s^2 + 1 with epsilon = 0: the resolver has just built row 2,
\* 4 s^3 + 4 s, from row 0
C21_Witness ==
    /\ input = <<1, 0, 2, 0, 1>>
    /\ cfg.epsilon = Zero
    /\ pc = "build" /\ i = 3
    /\ notes[Len(notes)] = ZeroRowNote(3)
    /\ table[3] = <<Float(4), Float(4), Zero>>

\* C22: every row i in 2..n built by the standard recurrence has
\* new[j] = (prev[0]*prev2[j+1] - prev2[0]*prev[j+1]) / prev[0] for every j
\* in 0..m-2, with prev the row i-1 after any pivot substitution and prev2
\* the row i-2; the divisor is prev[0] (never zero), and new[m-1] is 0.
\* Stated on the iteration just completed, whose new row is table[i-1].
C22_StandardRecurrence ==
    (pc = "build" /\ i > 2 /\ ~AllNearZero(prev, cfg)) =>
        LET new == table[i]
            prev2 == table[i - 2]
            m == MCols(n)
        IN  /\ Len(new) = m
            /\ prev[1] # Zero
            /\ \A j \in 0..(m - 2) :
                  new[j + 1] =
                      RDiv(RSub(RMul(prev[1], prev2[j + 2]),
                                RMul(prev2[1], prev[j + 2])),
                           prev[1])
            /\ new[m] = Zero

\* s^3 + 2 s^2 + 3 s + 4: row 2 is (2*3 - 1*4)/2 = 1, 0
C22_Witness ==
    /\ input = <<1, 2, 3, 4>>
    /\ cfg = DefaultConfig
    /\ pc = "build" /\ i = 3
    /\ prev = <<Float(2), Float(4)>>
    /\ table[3] = <<Float(1), Zero>>

\* a[idx] for the canonical coefficients a[0..order] (0-based idx), 0 past
\* the end
Padded(a, idx) == IF idx + 1 <= Len(a) THEN a[idx + 1] ELSE Zero

\* C23: for canonical coefficients a[0..n], row 0 of the table is a[0],
\* a[2], a[4], ... and row 1 is a[1], a[3], a[5], ..., each zero-padded to
\* length m = floor(n/2)+1; every index past n contributes 0.
C23_FirstTwoRows ==
    pc \in {"build", "done", "zero_division"} =>
        LET m == (n \div 2) + 1
        IN  /\ Len(coeffs) = n + 1
            /\ Len(table[1]) = m
            /\ Len(table[2]) = m
            /\ \A j \in 0..(m - 1) :
                  /\ table[1][j + 1] = Padded(coeffs, 2 * j)
                  /\ table[2][j + 1] = Padded(coeffs, 2 * j + 1)

\* 2 s^2 + s - 2 normalised: rows 1, -1 and 1/2, 0 (a[3] is past the end)
C23_Witness ==
    /\ input = <<2, 1, -2>>
    /\ cfg = DefaultConfig
    /\ Done
    /\ table[1] = <<Float(1), Float(-1)>>
    /\ table[2] = <<Rat(1, 2), Zero>>

\* the divisor row of the iteration just completed keeps its near-zero
\* first entry in the table while prev, a list of its own, carries epsilon;
\* a returned first_column shows the entries of the table
CommittedRowKept ==
    /\ (pc = "build" /\ i > 2 /\ AbsLt(table[i - 1][1], cfg.zero_row_exp)) =>
          /\ prev = [table[i - 1] EXCEPT ![1] = cfg.epsilon]
          /\ \A k \in 1..Len(table) : eng[1].prev # Deref(heap, eng[1].table)[k]
    /\ Done =>
          \A k \in 1..Len(Res.table) :
              /\ Res.first_column[k] = Res.table[k][1]
              /\ (k \in 2..Res.order /\ \E j \in 1..Len(Res.notes) :
                      Res.notes[j] = PivotNote(Res.order - (k - 1), cfg.epsilon))
                    => AbsLt(Res.table[k][1], cfg.zero_row_exp)

\* a step of the call leaves every row already appended as it is
CommittedRowsFrozen ==
    pc = "build" =>
        /\ Len(table') >= Len(table)
        /\ \A k \in 1..Len(table) : table'[k] = table[k]

\* C24: pivot substitution has no effect on rows already committed: the
\* epsilon is written to a copy used only for the division, so table[i-1]
\* in the returned table keeps its original near-zero first entry
\* (first_column shows the original value, not epsilon), and no row of the
\* table is modified after it has been appended.
C24_CommittedRowsUntouched == []CommittedRowKept /\ [][CommittedRowsFrozen]_vars

\* s^3 + 2 s: the iteration that divided by <<1e-6, 0>> has left row 1 of
\* the table as <<0, 0>>
C24_Witness ==
    /\ input = <<1, 0, 2, 0>>
    /\ cfg = DefaultConfig
    /\ pc = "build" /\ i = 3
    /\ prev = <<DefaultEpsilon, Zero>>
    /\ table[2] = <<Zero, Zero>>
    /\ Len(notes) = 1

\* ------------------------------------------------ claims on the normalizer
MaxPad == 2      \* most near-zero entries prepended to an input

\* the entries of cs that follow its leading zeros
AfterLeadingZeros(cs) ==
    LET nz == {k \in 1..Len(cs) : cs[k] # 0}
        first == CHOOSE k \in nz : \A l \in nz : k <= l
    IN  SubSeq(cs, first, Len(cs))

\* k zeros followed by cs
Prepended(k, cs) == [j \in 1..k |-> 0] \o cs

\* what __init__ stored for the input: its entries after the leading zeros,
\* as floats, divided by the first of them under normalize_leading
StoredIsStripped(stored, cs, c) ==
    LET rest == AfterLeadingZeros(cs)
    IN  /\ Len(stored) = Len(rest)
        /\ stored[1] # Zero
        /\ c.normalize_leading => stored[1] = Float(1)
        /\ \A k \in 1..Len(stored) :
              stored[k] = IF c.normalize_leading
                          THEN RDiv(Float(rest[k]), Float(rest[1]))
                          ELSE Float(rest[k])

\* after __init__, and in the result returned: the coefficients are the
\* stripped input, of length order+1
StrippedCoefficients ==
    /\ pc = "constructed" =>
          Len(coeffs) = n + 1 /\ StoredIsStripped(coeffs, input, cfg)
    /\ Done =>
          /\ Len(Res.coefficients) = Res.order + 1
          /\ StoredIsStripped(Res.coefficients, input, cfg)

\* the call on the input with k zeros prepended, k in 1..MaxPad, is accepted
\* and stores the same coefficients; with MaxPad zeros prepended it ends the
\* same way, with an equal result
PaddedAlike ==
    /\ pc = "constructed" =>
          \A k \in 1..MaxPad :
              /\ ~Rejected(Prepended(k, input), cfg)
              /\ Canonical(Prepended(k, input), cfg) = coeffs
    /\ Done =>
          Run(Prepended(MaxPad, input), cfg)
              = [status |-> "done", result |-> <<Res>>]
    /\ pc = "zero_division" =>
          Run(Prepended(MaxPad, input), cfg).status = "zero_division"

\* C25: the normalizer strips every leading near-zero entry and yields
\* coefficients of length order+1 with coefficients[0] non-zero (exactly 1
\* when normalize_leading is on); consequently prepending any number of
\* near-zero entries to a valid input yields the same order, coefficients,
\* table, rhp_poles and is_stable (and the same exception, if any).
C25_LeadingZerosStripped == [](StrippedCoefficients /\ PaddedAlike)

\* 0 s^3 + 0 s^2 + 2 s + 2 handled as s + 1
C25_Witness ==
    /\ input = <<0, 0, 2, 2>>
    /\ cfg = DefaultConfig
    /\ Done
    /\ Res.order = 1
    /\ Res.coefficients = <<Float(1), Float(1)>>
    /\ Run(<<0, 0, 0, 2, 2>>, cfg).result[1] = Res
    /\ Run(<<2, 2>>, cfg).result[1] = Res

\* C26: in every returned result, first_column has length order+1 with
\* first_column[k] = table[k][0] for every row k, and rhp_poles is exactly
\* the number of adjacent pairs of first_column with strictly opposite
\* signs.  Stated for the default configuration, order >= 1 and runs
\* without pivot substitution.
C26_FirstColumnAndCount ==
    (Done /\ cfg = DefaultConfig /\ Res.order >= 1 /\ Res.notes = <<>>) =>
        /\ Len(Res.first_column) = Res.order + 1
        /\ \A k \in 1..Len(Res.first_column) :
              Res.first_column[k] = Res.table[k][1]
        /\ Res.rhp_poles = PlainSignChanges(Res.first_column)

\* s - r with r # 0 real: no root on the imaginary axis
RealRootFactors == {<<1, -r>> : r \in {-1, 1}}

\* the products of one, two or three such factors
RealRootPolys ==
    RealRootFactors
    \cup {PolyMul(f, g) : f \in RealRootFactors, g \in RealRootFactors}
    \cup {PolyMul(PolyMul(f, g), h) :
             f \in RealRootFactors, g \in RealRootFactors, h \in RealRootFactors}

\* C27: routh_stability sets imag_axis_roots only when the polynomial has a
\* root on the imaginary axis: for s^2 - 1 it returns n_rhp = 1,
\* strictly_stable false, imag_axis_roots false; for (s+2)(s+3)(s+5)
\* strictly_stable true, n_rhp = 0, imag_axis_roots false; for s^2 + 1
\* n_rhp = 0, strictly_stable false, imag_axis_roots true; and for a product
\* of factors s - r with r # 0 real, imag_axis_roots false.
\* Violated: s^2 - 1 has the row of zeros s^1, and a row of zeros sets
\* imag_axis_roots (line 630).
C27_ImagAxisOnlyForImaginaryRoots ==
    plot.pc = "done" =>
        LET r == plot.ret[1]
        IN  /\ input = <<1, 0, -1>> =>
                r.n_rhp = 1 /\ ~r.strictly_stable /\ ~r.imag_axis_roots
            /\ input = <<1, 10, 31, 30>> =>
                r.strictly_stable /\ r.n_rhp = 0 /\ ~r.imag_axis_roots
            /\ input = <<1, 0, 1>> =>
                r.n_rhp = 0 /\ ~r.strictly_stable /\ r.imag_axis_roots
            /\ input \in RealRootPolys => ~r.imag_axis_roots

\* epsilon >= zero_row_epsilon > 0
EpsilonAtLeastTolerance(c) == c.epsilon.sign > 0 /\ ~AbsLt(c.epsilon, c.zero_row_exp)

\* 2^-51, twice the unit roundoff of a rounded product followed by a
\* rounded quotient
RoundingBound == RDiv(Float(1), RMul(Float(67108864), Float(33554432)))

\* |x - y| <= 2^-51 |y|
WithinRounding(x, y) == ~MagLt(RMul(RoundingBound, y), RSub(x, y))

\* 2^-1022, the smallest normal float
MinNormal == [sign |-> 1, exp |-> MinExp, mant |-> PowerOfTwo]

\* x is finite and 2^-1022 < |x|: neither an overflow nor in reach of the
\* subnormal floats
InsideNormalRange(x) == Finite(x) /\ MagLt(MinNormal, x)

\* C28 as stated: whenever epsilon >= zero_row_epsilon > 0 the pivot
\* substitution comes before the all-zero test and makes it false: the row
\* the test looks at is never all near zero, no note is a zero-row note, and
\* a row i-1 that is entirely zero is followed by row i with
\* row[i][j] = prev2[j+1] for j in 0..m-2 (prev2 shifted left by one column).
C28_SubstitutionPreemptsZeroRow ==
    EpsilonAtLeastTolerance(cfg) =>
        /\ \A k \in 1..Len(notes) : notes[k].kind # "zero_row"
        /\ (pc = "build" /\ i > 2) => ~AllNearZero(prev, cfg)
        /\ (pc = "build" /\ i > 2
                /\ \A k \in 1..Len(table[i - 1]) : table[i - 1][k] = Zero) =>
               /\ prev[1] = cfg.epsilon
               /\ \A j \in 0..(MCols(n) - 2) : table[i][j + 1] = table[i - 2][j + 2]

\* C28 amended: whenever epsilon >= zero_row_epsilon > 0 the row the
\* all-zero test looks at is never all near zero and no note is a zero-row
\* note; a row i-1 that is entirely zero, below a row i-2 whose first entry
\* is finite, is followed by row i with
\* row[i][j] = (epsilon * prev2[j+1]) / epsilon as floats.  Where prev2[j+1]
\* is 0, or the product and the quotient are finite and above 2^-1022 in
\* magnitude, this is prev2[j+1] up to a relative rounding error of 2^-51,
\* and prev2[j+1] itself when epsilon is a power of two.
C28_ShiftedUpToRounding ==
    EpsilonAtLeastTolerance(cfg) =>
        /\ \A k \in 1..Len(notes) : notes[k].kind # "zero_row"
        /\ (pc = "build" /\ i > 2) => ~AllNearZero(prev, cfg)
        /\ (pc = "build" /\ i > 2
                /\ \A k \in 1..Len(table[i - 1]) : table[i - 1][k] = Zero
                /\ Finite(table[i - 2][1])) =>
               /\ prev[1] = cfg.epsilon
               /\ \A j \in 0..(MCols(n) - 2) :
                    /\ table[i][j + 1] =
                         RDiv(RMul(cfg.epsilon, table[i - 2][j + 2]), cfg.epsilon)
                    /\ (\/ table[i - 2][j + 2] = Zero
                        \/ /\ InsideNormalRange(RMul(cfg.epsilon, table[i - 2][j + 2]))
                           /\ InsideNormalRange(table[i][j + 1])) =>
                          /\ WithinRounding(table[i][j + 1], table[i - 2][j + 2])
                          /\ cfg.epsilon.mant = PowerOfTwo =>
                                table[i][j + 1] = table[i - 2][j + 2]

\* reached: s^2 + 1e180 under the defaults, whose row s^1 is entirely zero;
\* the row s^0 is 1.0000000000000001e180, one unit in the last place above
\* 1e180, and the only note is the pivot note
C28_Witness ==
    /\ input = <<Float(1), Zero, BigCoef>>
    /\ cfg = DefaultConfig
    /\ pc = "build"
    /\ i = 3
    /\ table[1] = <<Float(1), BigCoef>>
    /\ table[2] = <<Zero, Zero>>
    /\ table[3][1] # BigCoef
    /\ InsideNormalRange(table[3][1])
    /\ RSub(table[3][1], BigCoef) = [sign |-> 1, exp |-> 490, mant |-> PowerOfTwo]
    /\ table[3][2] = Zero
    /\ notes = <<PivotNote(1, DefaultEpsilon)>>

\* the 0-based row indices k in 1..order-1 whose first entry is near zero
NearZeroDivisorRows(tbl, order, c) ==
    {k \in 1..(order - 1) : AbsLt(tbl[k + 1][1], c.zero_row_exp)}

\* C29: only rows 1..n-1 are examined as divisors: with
\* epsilon >= zero_row_epsilon the number of notes is the number of indices
\* k in 1..n-1 with |table[k][0]| < zero_row_epsilon, each of these rows has
\* its note, and a near-zero first entry in the last row (index n) has no
\* note and is not substituted.
C29_OnlyInnerRowsExamined ==
    (Done /\ EpsilonAtLeastTolerance(cfg)) =>
        LET rows == NearZeroDivisorRows(Res.table, Res.order, cfg)
        IN  /\ Len(Res.notes) = Cardinality(rows)
            /\ \A k \in rows : \E q \in 1..Len(Res.notes) :
                   Res.notes[q] = PivotNote(Res.order - k, cfg.epsilon)
            /\ \A q \in 1..Len(Res.notes) :
                   Res.notes[q].label \in {Res.order - k : k \in rows}
            /\ (Res.order >= 1
                    /\ AbsLt(Res.table[Res.order + 1][1], cfg.zero_row_exp)) =>
                   /\ \A q \in 1..Len(Res.notes) : Res.notes[q].label # 0
                   /\ Res.first_column[Res.order + 1] # cfg.epsilon

\* reached: s^3 + 2 s under the defaults: row s^2 has the pivot 0 and its
\* note, the last row s^0 is 0 0 and has none
C29_Witness ==
    /\ input = <<1, 0, 2, 0>>
    /\ cfg = DefaultConfig
    /\ Done
    /\ Res.table = << <<Float(1), Float(2)>>, <<Zero, Zero>>,
                      <<Float(2), Zero>>, <<Zero, Zero>> >>
    /\ Res.notes = <<PivotNote(2, DefaultEpsilon)>>

\* C30: round trip of the interleaving helpers: for a degree d >= 0 and a
\* row of length m >= floor(d/2)+1 whose entries at indices above floor(d/2)
\* are 0, _poly_to_row(_row_to_poly(row, d), m) = row, and
\* _row_to_poly(row, d) has length d+1 with 0 at every odd offset from the
\* top.
C30_RowPolyRoundTrip ==
    (/\ helper.pc = "row"
     /\ Len(helper.row) >= (helper.degree \div 2) + 1
     /\ \A k \in 1..Len(helper.row) :
            (k - 1) > helper.degree \div 2 => helper.row[k] = Zero) =>
        /\ helper.back = helper.row
        /\ Len(helper.poly) = helper.degree + 1
        /\ \A q \in 1..Len(helper.poly) :
               (q - 1) % 2 = 1 => helper.poly[q] = Zero

\* reached: the row 1, -1, 0 of degree 3 is s^3 - s, and comes back
C30_Witness ==
    /\ helper.pc = "row"
    /\ helper.row = <<Float(1), Float(-1), Zero>>
    /\ helper.degree = 3
    /\ helper.poly = <<Float(1), Zero, Float(-1), Zero>>
    /\ helper.back = <<Float(1), Float(-1), Zero>>

====
